---- MODULE Spec2Model ----
(***************************************************************************)
(* Fixed-block memory pool of wlib (lib/wlib/memory/Memory.cpp) and the    *)
(* ArrayList built on it (lib/wlib/stl/ArrayList.h).                       *)
(*                                                                         *)
(* The Router (__memory_alloc, __memory_free, __memory_realloc), the       *)
(* Registry (_allocators, find_allocator, insert_allocator) and the        *)
(* Bootstrap (MemoryInitDestroy, memory_init, memory_destroy) are          *)
(* translated from Memory.cpp, for the builds with a Static pool, with a   *)
(* Dynamic pool and with no pool (banks made on demand).  The Bank (class  *)
(* Allocator and its pool subclasses), the raw heap and the build          *)
(* configuration (MemoryConfiguration.h) are not part of the sources at    *)
(* hand; they follow sections 3, 4.A, 4.B and 6 of the specification.      *)
(*                                                                         *)
(* rawheap is the set of blocks taken from the raw heap and not given      *)
(* back; orphans counts the banks that were constructed and are in no      *)
(* slot of the Registry.  The bytes of the client are not kept: of memcpy  *)
(* the state records the number of bytes it moves (last.copied).           *)
(*                                                                         *)
(* A call through the null pointer of an empty slot of _allocators has no  *)
(* defined outcome: the Stats queries and the spill-up test of alloc       *)
(* record the empty slots they read (last.emptyReads), and the call traps  *)
(* (last.returned is FALSE, nothing is called afterwards) or goes on with  *)
(* junk for the counts of the missing bank.                                *)
(*                                                                         *)
(* Addresses are natural numbers, 0 is the null pointer.  A raw block      *)
(* starts with one machine word (the provenance prefix, or the free-list   *)
(* link while the block is free); the client pointer is the raw address    *)
(* plus the size of that word.                                             *)
(***************************************************************************)
EXTENDS Integers, Sequences, FiniteSets, TLC

VARIABLES config, _allocators, heap, outstanding, last,
          m_srefCount, rawheap, orphans,
          m_data, m_size, m_capacity, call

\* the state of the allocator (Memory.cpp)
memVars == <<config, _allocators, heap, outstanding, last,
             m_srefCount, rawheap, orphans>>

\* the state of one ArrayList (ArrayList.h)
listVars == <<m_data, m_size, m_capacity, call>>

vars == <<config, _allocators, heap, outstanding, last,
          m_srefCount, rawheap, orphans,
          m_data, m_size, m_capacity, call>>

(***************************************************************************)
(* Bounds of the model.                                                    *)
(***************************************************************************)
\* Registry length (MAX_ALLOCATORS) of the layout configuration: with a word
\* of 8 bytes, 8 banks reach the 300, 400 and 500 byte buckets
MaxBanks == 8
\* largest bank capacity (NUM_BLOCKS) of the small configurations
MaxBlocks == 2
\* blocks in total of a small Static configuration
MaxStaticBlocks == 5
\* blocks in total of a small Dynamic configuration
MaxDynamicBlocks == 3
\* live MemoryInitDestroy objects at a time
MaxRefs == 2
\* Registry length (MAX_ALLOCATORS) of the on-demand configuration
MaxDemandBanks == 2
\* blocks that the clients of an on-demand build hold at a time
MaxDemandBlocks == 2
\* banks that an on-demand build constructs without a slot to put them in
MaxOrphans == 1

\* largest capacity of an ArrayList
MaxCapacity == 4
\* elements that fit in the block of an array behind its last element
MaxSlack == 1

(***************************************************************************)
(* Machine arithmetic.                                                     *)
(***************************************************************************)
\* size_type is a 16 bit unsigned integer (Types.h): its values are 0..U16-1
U16 == 65536

\* A size32_type value is a 32 bit unsigned integer, kept as its two 16 bit
\* halves: [hi, lo] stands for hi * 2^16 + lo.
u32(n) == [ hi |-> (n \div U16) % U16, lo |-> n % U16 ]

\* 32 bit unsigned addition: the carry out of the upper half is lost
add32(x, y) ==
    [ hi |-> (x.hi + y.hi + ((x.lo + y.lo) \div U16)) % U16,
      lo |-> (x.lo + y.lo) % U16 ]

ge32(x, y) == x.hi > y.hi \/ (x.hi = y.hi /\ x.lo >= y.lo)

\* the largest size32_type value, 2^32 - 1
UINT32_MAX == [ hi |-> U16 - 1, lo |-> U16 - 1 ]

\* 32 bit unsigned comparison
gt32(x, y) == x.hi > y.hi \/ (x.hi = y.hi /\ x.lo > y.lo)

\* bitwise or of two 16 bit halves
RECURSIVE or16(_, _)
or16(a, b) ==
    IF a = 0 THEN b
    ELSE IF b = 0 THEN a
    ELSE LET a2 == a \div 2
             b2 == b \div 2
         IN  2 * or16(a2, b2) + (IF a % 2 = 1 \/ b % 2 = 1 THEN 1 ELSE 0)

or32(x, y) == [ hi |-> or16(x.hi, y.hi), lo |-> or16(x.lo, y.lo) ]


nullptr == 0

RECURSIVE Pow2(_)
Pow2(k) == IF k = 0 THEN 1 ELSE 2 * Pow2(k - 1)

\* floor of the binary logarithm, for k >= 1
RECURSIVE log2(_)
log2(k) == IF k <= 1 THEN 0 ELSE 1 + log2(k \div 2)

\* right shift of a 32 bit value by i bits, 1 <= i <= 16
shr32(x, i) ==
    [ hi |-> x.hi \div Pow2(i),
      lo |-> (x.lo \div Pow2(i)) + (x.hi % Pow2(i)) * (U16 \div Pow2(i)) ]

(***************************************************************************)
(* Build configuration.                                                    *)
(***************************************************************************)
\* MAX_ALLOCATORS, NUM_BLOCKS and the pool mode are macros of the build
\* (MemoryConfiguration.h); word is sizeof(Allocator *) of the target.
PoolModes == {"STATIC_POOL", "DYNAMIC_POOL"}

\* a build with neither pool macro: the banks are made on demand
NoPool == "NO_POOL"

\* the largest Registry that holds `total` blocks with banks of n blocks
BanksFor(total, n) == total \div n

\* small pools of a 32 bit target (the word size of the specification's
\* scenarios), Static and Dynamic
SmallConfigurations ==
    { c \in [ MAX_ALLOCATORS : 1..MaxStaticBlocks, NUM_BLOCKS : 1..MaxBlocks,
              word : {4}, pool : PoolModes ] :
        c.MAX_ALLOCATORS =
            BanksFor(IF c.pool = "STATIC_POOL" THEN MaxStaticBlocks ELSE MaxDynamicBlocks,
                     c.NUM_BLOCKS) }

\* a Static pool of a 64 bit target with one block per bank: its layout is
\* 16, 32, 64, 128, 256, 300, 400, 500, ...
LayoutConfigurations ==
    { [ MAX_ALLOCATORS |-> MaxBanks, NUM_BLOCKS |-> 1, word |-> 8,
        pool |-> "STATIC_POOL" ] }

\* on-demand banks on a 32 bit target; NUM_BLOCKS has no use in this build
DemandConfigurations ==
    { [ MAX_ALLOCATORS |-> MaxDemandBanks, NUM_BLOCKS |-> 1, word |-> 4,
        pool |-> NoPool ] }

Configurations ==
    SmallConfigurations \cup LayoutConfigurations \cup DemandConfigurations

MAX_ALLOCATORS == config.MAX_ALLOCATORS

NUM_BLOCKS == config.NUM_BLOCKS

required_extra_buffer == config.word

(***************************************************************************)
(* Bootstrap.                                                              *)
(***************************************************************************)
numRestrictions == 3

powOffsetFromZero == 9

restrictions == <<300, 400, 500>>

RestrictSize_apply(pow, blockSize) ==
    IF pow >= powOffsetFromZero /\ pow < powOffsetFromZero + numRestrictions
    THEN restrictions[pow - powOffsetFromZero + 1]
    ELSE blockSize

\* smallest pow of 2 a block can be created
powStart(word) == (log2(word) + 1) % U16

\* block size of the bank that insert<powStart, from, to>::apply() puts in
\* slot `from` (slots are numbered from 0 in the code, from 1 here)
insert_blockSize(word, from) ==
    RestrictSize_apply(from + powStart(word), Pow2(from + powStart(word)))

\* the addresses set aside for the blocks of one bank
StorageSpan == 16 * U16

\* where the storage of the bank in slot i begins
StorageBase(i) == i * StorageSpan

\* raw address of the k-th block (k >= 1) of the bank in slot i
BlockAddr(i, blockSize, k) == StorageBase(i) + (k - 1) * blockSize

\* a Static bank starts with every block on its free-list, a Dynamic bank
\* with no block at all
NewBank(c, i) ==
    LET bs == insert_blockSize(c.word, i - 1) IN
    [ blockSize |-> bs,
      capacity  |-> c.NUM_BLOCKS,
      in_use    |-> 0,
      pool      |-> c.pool,
      base      |-> StorageBase(i),
      acquired  |-> IF c.pool = "STATIC_POOL" THEN c.NUM_BLOCKS ELSE 0,
      free_list |-> IF c.pool = "STATIC_POOL"
                    THEN [ k \in 1..c.NUM_BLOCKS |-> BlockAddr(i, bs, k) ]
                    ELSE << >> ]

\* a slot of _allocators that holds the null pointer
EmptySlot == [ null |-> TRUE ]

\* _allocators before memory_init and after memory_destroy
NoBanks(c) == [ i \in 1..c.MAX_ALLOCATORS |-> EmptySlot ]

\* insert<powStart, 0, MAX_ALLOCATORS - 1>::apply(): one bank per slot in a
\* pool build, nothing in an on-demand build
memory_init(c) ==
    IF c.pool = NoPool THEN NoBanks(c)
    ELSE [ i \in 1..c.MAX_ALLOCATORS |-> NewBank(c, i) ]

\* the first word of every block: the free-list of a Static bank is threaded
\* through its blocks
InitHeap(c) ==
    IF c.pool = NoPool THEN [ a \in {} |-> nullptr ] ELSE
    LET A == memory_init(c)
        Addrs == { BlockAddr(i, A[i].blockSize, k) :
                     i \in 1..c.MAX_ALLOCATORS, k \in 1..c.NUM_BLOCKS }
        bankOf(a) == CHOOSE i \in 1..c.MAX_ALLOCATORS :
                        \E k \in 1..c.NUM_BLOCKS : BlockAddr(i, A[i].blockSize, k) = a
        idx(a) == CHOOSE k \in 1..c.NUM_BLOCKS :
                        BlockAddr(bankOf(a), A[bankOf(a)].blockSize, k) = a
    IN  [ a \in Addrs |->
            IF c.pool = "STATIC_POOL" /\ idx(a) < c.NUM_BLOCKS
            THEN BlockAddr(bankOf(a), A[bankOf(a)].blockSize, idx(a) + 1)
            ELSE nullptr ]

(***************************************************************************)
(* Bank: class Allocator, StaticAllocatorPool, DynamicAllocatorPool.       *)
(***************************************************************************)
GetBlockSize(bank) == bank.blockSize

GetTotalBlocks(bank) == bank.capacity

GetNumAllocations(bank) == bank.in_use

\* Allocate(): pop the head of the free-list; a Dynamic bank with an empty
\* free-list and in_use < capacity asks the raw heap for one more block,
\* which succeeds when heapOK.  The result is the bank afterwards and the raw
\* block, nullptr when there is none (the bank is then unchanged).
Allocate(bank, heapOK) ==
    IF bank.free_list # << >>
    THEN [ bank  |-> [ bank EXCEPT !.free_list = Tail(bank.free_list),
                                   !.in_use = bank.in_use + 1 ],
           block |-> Head(bank.free_list) ]
    ELSE IF /\ \/ bank.pool = "DYNAMIC_POOL" /\ bank.in_use < bank.capacity
               \/ bank.pool = NoPool
            /\ heapOK
    THEN [ bank  |-> [ bank EXCEPT !.acquired = bank.acquired + 1,
                                   !.in_use = bank.in_use + 1 ],
           block |-> bank.base + bank.acquired * bank.blockSize ]
    ELSE [ bank |-> bank, block |-> nullptr ]

\* Deallocate(block): push the block onto the free-list
Deallocate(bank, block) ==
    [ bank EXCEPT !.free_list = << block >> \o bank.free_list,
                  !.in_use = bank.in_use - 1 ]

\* the blocks that the destructor of a bank gives back to the raw heap: those
\* on its free-list, when they came from the raw heap
Released(bank) ==
    IF bank = EmptySlot \/ bank.pool = "STATIC_POOL" THEN {}
    ELSE { bank.free_list[k] : k \in 1..Len(bank.free_list) }

\* the first word of a block that Deallocate pushes is the link to the
\* former head of the free-list
LinkWord(bank) ==
    IF bank.free_list = << >> THEN nullptr ELSE Head(bank.free_list)

(***************************************************************************)
(* Registry.                                                               *)
(***************************************************************************)
\* the slot of the first bank, in slot order, with GetBlockSize() >= size in
\* a pool build and with GetBlockSize() == size in an on-demand build; the
\* search ends at the first empty slot; 0 stands for the null Allocator pointer
RECURSIVE find_from(_, _, _)
find_from(A, size, i) ==
    IF i > Len(A) THEN 0
    ELSE IF A[i] = EmptySlot THEN 0
    ELSE IF config.pool # NoPool /\ ge32(u32(GetBlockSize(A[i])), size) THEN i
    ELSE IF config.pool = NoPool /\ u32(GetBlockSize(A[i])) = size THEN i
    ELSE find_from(A, size, i + 1)

find_allocator(A, size) == find_from(A, size, 1)

\* the first empty slot, 0 when every slot holds a bank
RECURSIVE insert_from(_, _)
insert_from(A, i) ==
    IF i > Len(A) THEN 0
    ELSE IF A[i] = EmptySlot THEN i
    ELSE insert_from(A, i + 1)

\* insert_allocator(allocator): the bank goes in the first empty slot; ok is
\* FALSE, and the Registry as it was, when there is none
insert_allocator(A, bank) ==
    LET i == insert_from(A, 1) IN
    IF i = 0 THEN [ ok |-> FALSE, A |-> A ]
    ELSE [ ok |-> TRUE,
           A  |-> [ A EXCEPT ![i] = [ bank EXCEPT !.base = StorageBase(i) ] ] ]

\* memory_destroy(): delete the banks up to the first empty slot and empty
\* their slots
RECURSIVE memory_destroy_from(_, _)
memory_destroy_from(A, i) ==
    IF i > Len(A) THEN A
    ELSE IF A[i] = EmptySlot THEN A
    ELSE memory_destroy_from([ A EXCEPT ![i] = EmptySlot ], i + 1)

memory_destroy(A) == memory_destroy_from(A, 1)

\* the raw heap blocks that the banks deleted by memory_destroy() give back
ReleasedByDestroy(A) ==
    UNION { Released(A[i]) :
              i \in { j \in 1..Len(A) : \A k \in 1..j : A[k] # EmptySlot } }

(***************************************************************************)
(* Router.                                                                 *)
(***************************************************************************)
\* variant: the client gets the address of the raw block
set_block_allocator_nostep(H, block, allocator, word) ==
    [ heap |-> [ a \in DOMAIN H \cup {block} |->
                    IF a = block THEN allocator ELSE H[a] ],
      ptr  |-> block ]

\* write the Allocator pointer into the first word of the raw block and
\* return the client's pointer past it
set_block_allocator(H, block, allocator, word) ==
    [ heap |-> IF block \in DOMAIN H
               THEN [ H EXCEPT ![block] = allocator ]
               ELSE [ a \in DOMAIN H \cup {block} |->
                        IF a = block THEN allocator ELSE H[a] ],
      ptr  |-> block + word ]

\* nextHigher<size_t>(k): k--; k |= k >> i for i = 1, 2, 4, ...; return k + 1.
\* The result is stored in a size32_type: its low 32 bits are the same for a
\* size_t of 32 and of 64 bits.
RECURSIVE nextHigher_smear(_, _)
nextHigher_smear(k, i) ==
    IF i > 16 THEN k
    ELSE LET smeared == or32(k, shr32(k, i)) IN nextHigher_smear(smeared, 2 * i)

nextHigher(k) ==
    add32(nextHigher_smear(add32(k, UINT32_MAX), 1), u32(1))

\* the block size of an on-demand build for a request of `size` bytes
demand_blockSize(size, word) ==
    LET blockSize == add32(size, u32(word)) IN
    IF gt32(blockSize, u32(256)) /\ ge32(u32(396), blockSize) THEN u32(396)
    ELSE IF gt32(blockSize, u32(512)) /\ ge32(u32(768), blockSize) THEN u32(768)
    ELSE nextHigher(blockSize)

\* new Allocator(blockSize): a bank without blocks that takes each block from
\* the raw heap; the slot gives its blocks their addresses
NewAllocator(blockSize) ==
    [ blockSize |-> blockSize.hi * U16 + blockSize.lo,
      capacity  |-> 0,
      in_use    |-> 0,
      pool      |-> NoPool,
      base      |-> 0,
      acquired  |-> 0,
      free_list |-> << >> ]

\* variant: a request of no bytes gets no bank
memory_get_allocator_zero(A, size, word) ==
    [ A |-> A, orphans |-> 0,
      allocator |-> IF size = u32(0) THEN 0
                    ELSE find_allocator(A, add32(size, u32(word))) ]

\* the second half of memory_get_allocator in an on-demand build: the bank of
\* exactly blockSize bytes, constructed and inserted when there is none
find_or_insert(A, blockSize) ==
    LET allocator == find_allocator(A, blockSize) IN
    IF allocator # 0
    THEN [ A |-> A, allocator |-> allocator, orphans |-> 0 ]
    ELSE LET ins == insert_allocator(A, NewAllocator(blockSize)) IN
         IF ~ins.ok
         THEN [ A |-> A, allocator |-> 0, orphans |-> 1 ]
         ELSE [ A |-> ins.A, allocator |-> insert_from(A, 1), orphans |-> 0 ]

\* the result is the Registry afterwards, the slot of the bank (0 for the
\* null pointer) and the number of banks constructed and left in no slot
memory_get_allocator(A, size, word) ==
    IF config.pool # NoPool
    THEN [ A |-> A, allocator |-> find_allocator(A, add32(size, u32(word))),
           orphans |-> 0 ]
    ELSE find_or_insert(A, demand_blockSize(size, word))

\* variant: an exhausted bank fails the request, larger banks are not tried
__memory_alloc_nospill(A, H, size, word, okFrom) ==
    LET g == memory_get_allocator(A, size, word)
        allocator == g.allocator
    IN
    IF allocator = 0
    THEN [ A |-> g.A, heap |-> H, ret |-> nullptr, orphans |-> g.orphans ]
    ELSE LET r == Allocate(g.A[allocator], allocator >= okFrom) IN
         IF r.block = nullptr
         THEN [ A |-> g.A, heap |-> H, ret |-> nullptr, orphans |-> g.orphans ]
         ELSE LET s == set_block_allocator(H, r.block, allocator, word)
              IN  [ A    |-> [ g.A EXCEPT ![allocator] = r.bank ],
                    heap |-> s.heap,
                    ret  |-> s.ptr,
                    orphans |-> g.orphans ]

\* variant: the retry asks for twice the block size of the exhausted bank
RECURSIVE __memory_alloc_double(_, _, _, _, _)
__memory_alloc_double(A, H, size, word, okFrom) ==
    LET g == memory_get_allocator(A, size, word)
        allocator == g.allocator
    IN
    IF allocator = 0
    THEN [ A |-> g.A, heap |-> H, ret |-> nullptr, orphans |-> g.orphans ]
    ELSE LET r == Allocate(g.A[allocator], allocator >= okFrom) IN
         IF r.block = nullptr
         THEN LET currBlockSize == GetBlockSize(g.A[allocator]) IN
              IF currBlockSize < GetBlockSize(g.A[Len(g.A)])
              THEN __memory_alloc_double(g.A, H, u32(2 * currBlockSize), word, okFrom)
              ELSE [ A |-> g.A, heap |-> H, ret |-> nullptr, orphans |-> g.orphans ]
         ELSE LET s == set_block_allocator(H, r.block, allocator, word)
              IN  [ A    |-> [ g.A EXCEPT ![allocator] = r.bank ],
                    heap |-> s.heap,
                    ret  |-> s.ptr,
                    orphans |-> g.orphans ]

\* okFrom: the raw heap refuses the banks in the slots below okFrom and serves
\* the others (the banks are asked in slot order and the call stops at the
\* first block it gets, so this covers every pattern of refusals).  The
\* result is the Registry and the first words of the blocks afterwards, the
\* client's pointer, and the number of banks left in no slot.  When the last
\* slot is empty, the spill-up test reads a block size through a null
\* pointer: the result is then the call at that test, with the empty slot it
\* read (emptyRead) and the request that a spill-up would go on with (next).
RECURSIVE __memory_alloc(_, _, _, _, _)

\* __memory_alloc once memory_get_allocator has returned g
__memory_alloc_from(g, H, word, okFrom) ==
    IF g.allocator = 0
    THEN [ A |-> g.A, heap |-> H, ret |-> nullptr, orphans |-> g.orphans ]
    ELSE LET r == Allocate(g.A[g.allocator], g.allocator >= okFrom)
             blockMemoryPtr == r.block
         IN  IF blockMemoryPtr = nullptr
             THEN LET currBlockSize == GetBlockSize(g.A[g.allocator]) IN
                  IF g.A[Len(g.A)] = EmptySlot
                  THEN [ A |-> g.A, heap |-> H, ret |-> nullptr, orphans |-> g.orphans,
                         emptyRead |-> Len(g.A),
                         next |-> add32(u32(currBlockSize), u32(1)) ]
                  ELSE IF currBlockSize < GetBlockSize(g.A[Len(g.A)])
                  THEN LET n == __memory_alloc(g.A, H, add32(u32(currBlockSize), u32(1)),
                                               word, okFrom)
                       IN  [ n EXCEPT !.orphans = n.orphans + g.orphans ]
                  ELSE [ A |-> g.A, heap |-> H, ret |-> nullptr, orphans |-> g.orphans ]
             ELSE LET s == set_block_allocator(H, blockMemoryPtr, g.allocator, word)
                  IN  [ A    |-> [ g.A EXCEPT ![g.allocator] = r.bank ],
                        heap |-> s.heap,
                        ret  |-> s.ptr,
                        orphans |-> g.orphans ]

__memory_alloc(A, H, size, word, okFrom) ==
    __memory_alloc_from(memory_get_allocator(A, size, word), H, word, okFrom)

\* the Allocator pointer stored one word before the client's pointer
get_block_allocator(H, block, word) == H[block - word]

\* variant: the client's pointer is taken for the raw block
get_block_ptr_nostep(block, word) == block

\* the raw block of a client's pointer
get_block_ptr(block, word) == block - word

\* variant: no test for the null pointer; the word read before address 0
\* happens to name the first bank
__memory_free_nonull(A, H, ptr, word) ==
    LET allocator == IF ptr = nullptr THEN 1 ELSE get_block_allocator(H, ptr, word)
        blockPtr == IF ptr = nullptr THEN nullptr ELSE get_block_ptr(ptr, word)
    IN  [ A    |-> [ A EXCEPT ![allocator] = Deallocate(A[allocator], blockPtr) ],
          heap |-> IF blockPtr \in DOMAIN H
                   THEN [ H EXCEPT ![blockPtr] = LinkWord(A[allocator]) ]
                   ELSE H ]

__memory_free(A, H, ptr, word) ==
    IF ptr = nullptr
    THEN [ A |-> A, heap |-> H ]
    ELSE LET allocator == get_block_allocator(H, ptr, word)
             blockPtr == get_block_ptr(ptr, word)
         IN  [ A    |-> [ A EXCEPT ![allocator] = Deallocate(A[allocator], blockPtr) ],
               heap |-> [ H EXCEPT ![blockPtr] = LinkWord(A[allocator]) ] ]

\* variant: the old block is never freed
__memory_realloc_leak(A, H, oldMem, size, word, okFrom) ==
    IF oldMem = nullptr
    THEN __memory_alloc(A, H, size, word, okFrom) @@ [ copied |-> 0 ]
    ELSE IF size = u32(0)
    THEN LET f == __memory_free(A, H, oldMem, word)
         IN  [ A |-> f.A, heap |-> f.heap, ret |-> nullptr, orphans |-> 0, copied |-> 0 ]
    ELSE __memory_alloc(A, H, size, word, okFrom) @@ [ copied |-> 0 ]

\* variant: the old block is freed before the new one is allocated
__memory_realloc_freefirst(A, H, oldMem, size, word, okFrom) ==
    IF oldMem = nullptr
    THEN __memory_alloc(A, H, size, word, okFrom) @@ [ copied |-> 0 ]
    ELSE LET f == __memory_free(A, H, oldMem, word) IN
         IF size = u32(0)
         THEN [ A |-> f.A, heap |-> f.heap, ret |-> nullptr, orphans |-> 0, copied |-> 0 ]
         ELSE __memory_alloc(f.A, f.heap, size, word, okFrom) @@ [ copied |-> 0 ]

\* variant: the test for no bytes comes before the test for the null pointer
__memory_realloc_zerofirst(A, H, oldMem, size, word, okFrom) ==
    IF size = u32(0)
    THEN LET f == __memory_free(A, H, oldMem, word)
         IN  [ A |-> f.A, heap |-> f.heap, ret |-> nullptr, orphans |-> 0, copied |-> 0 ]
    ELSE __memory_alloc(A, H, size, word, okFrom) @@ [ copied |-> 0 ]

\* the number of bytes that memcpy moves from the old block to the new one:
\* oldSize is a size_type, the comparison with size is made in 32 bits
memcpy_size(oldAllocator, size, word) ==
    LET oldSize == (GetBlockSize(oldAllocator) - word) % U16
    IN  IF gt32(size, u32(oldSize)) THEN oldSize ELSE size.lo

\* the result is that of __memory_alloc, and the number of bytes copied from
\* the old block to the new one
__memory_realloc(A, H, oldMem, size, word, okFrom) ==
    IF oldMem = nullptr
    THEN __memory_alloc(A, H, size, word, okFrom) @@ [ copied |-> 0 ]
    ELSE IF size = u32(0)
    THEN LET f == __memory_free(A, H, oldMem, word)
         IN  [ A |-> f.A, heap |-> f.heap, ret |-> nullptr, orphans |-> 0, copied |-> 0 ]
    ELSE LET n == __memory_alloc(A, H, size, word, okFrom) IN
         IF n.ret # nullptr
         THEN LET oldAllocator == get_block_allocator(n.heap, oldMem, word)
                  f == __memory_free(n.A, n.heap, oldMem, word)
              IN  [ A |-> f.A, heap |-> f.heap, ret |-> n.ret, orphans |-> n.orphans,
                    copied |-> memcpy_size(n.A[oldAllocator], size, word) ]
         ELSE [ A |-> n.A, heap |-> H, ret |-> nullptr, orphans |-> n.orphans,
                copied |-> 0 ]

(***************************************************************************)
(* Stats.  The sums are 32 bit in the code; with the bank layouts of the   *)
(* configurations above they stay far below 2^32.                          *)
(***************************************************************************)
RECURSIVE SumUsed(_, _)
SumUsed(A, i) ==
    IF i = 0 THEN 0
    ELSE SumUsed(A, i - 1) + GetNumAllocations(A[i]) * GetBlockSize(A[i])

getTotalMemoryUsed == SumUsed(_allocators, Len(_allocators))

RECURSIVE SumAvailable(_, _)
SumAvailable(A, i) ==
    IF i = 0 THEN 0
    ELSE SumAvailable(A, i - 1) + GetTotalBlocks(A[i]) * GetBlockSize(A[i])

getTotalMemoryAvailable == SumAvailable(_allocators, Len(_allocators))

isSizeAvailable(blockSize) ==
    \E i \in 1..Len(_allocators) : GetBlockSize(_allocators[i]) = blockSize

isSizeMemAvailable(blockSize) ==
    \E i \in 1..Len(_allocators) :
        /\ GetBlockSize(_allocators[i]) = blockSize
        /\ \A j \in 1..(i - 1) : GetBlockSize(_allocators[j]) # blockSize
        /\ GetTotalBlocks(_allocators[i]) * GetBlockSize(_allocators[i])
             - GetNumAllocations(_allocators[i]) * GetBlockSize(_allocators[i]) # 0

RECURSIVE SumBlocksAvailable(_, _, _)
SumBlocksAvailable(A, blockSize, i) ==
    IF i = 0 THEN 0
    ELSE ( SumBlocksAvailable(A, blockSize, i - 1)
           + IF GetBlockSize(A[i]) = blockSize
             THEN ( GetTotalBlocks(A[i]) * GetBlockSize(A[i])
                    - GetNumAllocations(A[i]) * GetBlockSize(A[i]) ) \div blockSize
             ELSE 0 ) % U16

getNumBlocksAvailable(blockSize) ==
    SumBlocksAvailable(_allocators, blockSize, Len(_allocators))

\* The Stats queries walk the whole array _allocators and call the bank of
\* every slot, with no test for the null pointer (377-425).  What a call
\* through a null Allocator pointer gives is not defined: the query traps,
\* or it reads some counts from the memory at address 0.
JunkBanks ==
    [ blockSize : {0, 8}, capacity : {1}, in_use : {0} ]

\* what the calls through the null pointers of a query do: nothing when no
\* slot is empty
JunkOutcomes ==
    IF \A i \in 1..Len(_allocators) : _allocators[i] # EmptySlot
    THEN { [ junk |-> EmptySlot, traps |-> FALSE ] }
    ELSE [ junk : JunkBanks, traps : BOOLEAN ]

\* the array as a query reads it when the empty slots give junk
Seen(A, junk) ==
    [ i \in 1..Len(A) |-> IF A[i] = EmptySlot THEN junk ELSE A[i] ]

\* the first slot whose bank has the block size, 0 when there is none
RECURSIVE FirstOfSize(_, _, _)
FirstOfSize(A, blockSize, i) ==
    IF i > Len(A) THEN 0
    ELSE IF GetBlockSize(A[i]) = blockSize THEN i
    ELSE FirstOfSize(A, blockSize, i + 1)

StatsQueries ==
    { "getTotalMemoryUsed", "getTotalMemoryAvailable", "isSizeAvailable",
      "isSizeMemAvailable", "getNumBlocksAvailable" }

\* the slots whose bank a query calls: isSizeAvailable and
\* isSizeMemAvailable return at the first bank of the size, the other
\* queries go through every slot
SlotsRead(q, A, blockSize) ==
    IF /\ q \in { "isSizeAvailable", "isSizeMemAvailable" }
       /\ FirstOfSize(A, blockSize, 1) # 0
    THEN 1..FirstOfSize(A, blockSize, 1)
    ELSE 1..Len(A)

\* what the query returns from the array A
StatsAnswer(q, A, blockSize) ==
    CASE q = "getTotalMemoryUsed" -> SumUsed(A, Len(A))
      [] q = "getTotalMemoryAvailable" -> SumAvailable(A, Len(A))
      [] q = "isSizeAvailable" -> FirstOfSize(A, blockSize, 1) # 0
      [] q = "isSizeMemAvailable" ->
            LET i == FirstOfSize(A, blockSize, 1) IN
            /\ i # 0
            /\ GetTotalBlocks(A[i]) * GetBlockSize(A[i])
                 - GetNumAllocations(A[i]) * GetBlockSize(A[i]) # 0
      [] q = "getNumBlocksAvailable" -> SumBlocksAvailable(A, blockSize, Len(A))

(***************************************************************************)
(* The client: request sizes and calls.                                    *)
(***************************************************************************)
\* request sizes of a pool build: none, one byte, around every bucket
\* boundary, and the largest 32 bit values
PoolSizes ==
    { u32(0), u32(1) }
    \cup UNION { { u32(insert_blockSize(required_extra_buffer, i - 1)
                       - required_extra_buffer),
                   u32(insert_blockSize(required_extra_buffer, i - 1)
                       - required_extra_buffer + 1) } :
                 i \in 1..MAX_ALLOCATORS }
    \cup { UINT32_MAX,
           [ hi |-> U16 - 1, lo |-> U16 - required_extra_buffer ],
           [ hi |-> U16 - 1, lo |-> U16 - required_extra_buffer - 1 ] }

\* request sizes of an on-demand build: none, one byte, the ends of the
\* buckets of 256, 396 and 768 bytes, 2^16 bytes, and the largest 32 bit value
DemandSizes ==
    { u32(0), u32(1),
      u32(256 - required_extra_buffer), u32(256 - required_extra_buffer + 1),
      u32(512 - required_extra_buffer + 1),
      u32(U16), UINT32_MAX }

Sizes == IF config.pool = NoPool THEN DemandSizes ELSE PoolSizes

\* request sizes of realloc: none, one byte, the largest bucket, and the
\* largest 32 bit value; 2^16 bytes in an on-demand build
ReallocSizes ==
    IF config.pool = NoPool THEN { u32(0), u32(1), u32(U16) }
    ELSE { u32(0), u32(1),
           u32(insert_blockSize(required_extra_buffer, MAX_ALLOCATORS - 1)
               - required_extra_buffer),
           UINT32_MAX }

\* request sizes while MemoryInitDestroy objects come and go: one byte and
\* the largest bucket
LifecycleSizes ==
    { u32(1),
      u32(insert_blockSize(required_extra_buffer, MAX_ALLOCATORS - 1)
          - required_extra_buffer) }

\* the refusals of the raw heap that a call can meet
Oracles ==
    IF config.pool = "DYNAMIC_POOL" THEN 1..(MAX_ALLOCATORS + 1) ELSE {1}

NoCall ==
    [ op |-> "none", ptr |-> nullptr, size |-> u32(0), ret |-> nullptr, copied |-> 0 ]

\* no call of an ArrayList yet
NoListCall ==
    [ op |-> "none", i |-> 0, t |-> "none", returned |-> TRUE, iterations |-> 0,
      beyond |-> {} ]

\* a program without an ArrayList
NoList ==
    /\ m_data = << >>
    /\ m_size = 0
    /\ m_capacity = 0
    /\ call = NoListCall

\* the static state of Memory.cpp before any MemoryInitDestroy object exists
InitStatic(c) ==
    /\ config = c
    /\ _allocators = NoBanks(c)
    /\ heap = [ a \in {} |-> nullptr ]
    /\ outstanding = {}
    /\ last = NoCall
    /\ m_srefCount = 0
    /\ rawheap = {}
    /\ orphans = 0
    /\ NoList

\* the state after the first MemoryInitDestroy object was constructed
InitConfig(c) ==
    /\ config = c
    /\ _allocators = memory_init(config)
    /\ heap = InitHeap(config)
    /\ outstanding = {}
    /\ last = NoCall
    /\ m_srefCount = 1
    /\ rawheap = {}
    /\ orphans = 0
    /\ NoList

Init == \E c \in SmallConfigurations : InitConfig(c)

InitLayout == \E c \in LayoutConfigurations : InitConfig(c)

InitDemand == \E c \in DemandConfigurations : InitConfig(c)

InitLifecycle == \E c \in SmallConfigurations : InitStatic(c)

\* the blocks taken from the raw heap and not given back: a block that a
\* bank without storage of its own hands out is one of them
Acquired(ret) ==
    IF config.pool = "STATIC_POOL" \/ ret = nullptr THEN rawheap
    ELSE rawheap \cup { ret - required_extra_buffer }

\* the clients of an on-demand build hold MaxDemandBlocks blocks at most
Holdable(n) == config.pool = NoPool => n <= MaxDemandBlocks

Alloc(size) ==
    \E okFrom \in Oracles :
        LET r == __memory_alloc(_allocators, heap, size, required_extra_buffer, okFrom) IN
        /\ Holdable(Cardinality(outstanding) + 1)
        /\ orphans + r.orphans <= MaxOrphans
        /\ _allocators' = r.A
        /\ heap' = r.heap
        /\ outstanding' = outstanding \cup ({r.ret} \ {nullptr})
        /\ last' = [ op |-> "alloc", ptr |-> nullptr, size |-> size, ret |-> r.ret,
                     copied |-> 0 ]
        /\ rawheap' = Acquired(r.ret)
        /\ orphans' = orphans + r.orphans
        /\ UNCHANGED <<config, m_srefCount>>
        /\ UNCHANGED listVars

Free(ptr) ==
    LET r == __memory_free(_allocators, heap, ptr, required_extra_buffer) IN
    /\ _allocators' = r.A
    /\ heap' = r.heap
    /\ outstanding' = outstanding \ {ptr}
    /\ last' = [ op |-> "free", ptr |-> ptr, size |-> u32(0), ret |-> nullptr,
                 copied |-> 0 ]
    /\ UNCHANGED <<config, m_srefCount, rawheap, orphans>>
    /\ UNCHANGED listVars

Realloc(oldMem, size) ==
    \E okFrom \in Oracles :
        LET r == __memory_realloc(_allocators, heap, oldMem, size,
                                  required_extra_buffer, okFrom) IN
        /\ Holdable(Cardinality(outstanding) + 1)
        /\ orphans + r.orphans <= MaxOrphans
        /\ _allocators' = r.A
        /\ heap' = r.heap
        /\ outstanding' =
              IF oldMem # nullptr /\ size # u32(0) /\ r.ret = nullptr
              THEN outstanding
              ELSE (outstanding \ {oldMem}) \cup ({r.ret} \ {nullptr})
        /\ last' = [ op |-> "realloc", ptr |-> oldMem, size |-> size, ret |-> r.ret,
                     copied |-> r.copied ]
        /\ rawheap' = Acquired(r.ret)
        /\ orphans' = orphans + r.orphans
        /\ UNCHANGED <<config, m_srefCount>>
        /\ UNCHANGED listVars

\* variant: every construction runs memory_init
Construct_always ==
    /\ m_srefCount < MaxRefs
    /\ m_srefCount' = m_srefCount + 1
    /\ IF config.pool # NoPool
       THEN /\ _allocators' = memory_init(config)
            /\ heap' = InitHeap(config)
       ELSE UNCHANGED <<_allocators, heap>>
    /\ last' = [ op |-> "construct", ptr |-> nullptr, size |-> u32(0),
                 ret |-> nullptr, copied |-> 0 ]
    /\ UNCHANGED <<config, outstanding, rawheap, orphans>>
    /\ UNCHANGED listVars

\* MemoryInitDestroy(): the first object constructs the banks; memory_init
\* of an on-demand build leaves _allocators as it is
Construct ==
    /\ m_srefCount < MaxRefs
    /\ m_srefCount' = m_srefCount + 1
    /\ IF m_srefCount = 0 /\ config.pool # NoPool
       THEN /\ _allocators' = memory_init(config)
            /\ heap' = InitHeap(config)
       ELSE UNCHANGED <<_allocators, heap>>
    /\ last' = [ op |-> "construct", ptr |-> nullptr, size |-> u32(0),
                 ret |-> nullptr, copied |-> 0 ]
    /\ UNCHANGED <<config, outstanding, rawheap, orphans>>
    /\ UNCHANGED listVars

\* ~MemoryInitDestroy(), of an object that was constructed: the last object
\* destroys the banks.  The pointers that the clients still hold are of no
\* use from then on.
Destruct ==
    /\ m_srefCount > 0
    /\ m_srefCount' = m_srefCount - 1
    /\ IF m_srefCount - 1 = 0
       THEN /\ _allocators' = memory_destroy(_allocators)
            /\ rawheap' = rawheap \ ReleasedByDestroy(_allocators)
            /\ outstanding' = {}
       ELSE UNCHANGED <<_allocators, rawheap, outstanding>>
    /\ last' = [ op |-> "destruct", ptr |-> nullptr, size |-> u32(0),
                 ret |-> nullptr, copied |-> 0 ]
    /\ UNCHANGED <<config, heap, orphans>>
    /\ UNCHANGED listVars

\* the call from the spill-up test on when the block size read through the
\* null pointer was a large one: the spill-up goes on, at every such test
RECURSIVE spill_on_junk(_, _, _)
spill_on_junk(r, word, okFrom) ==
    IF "emptyRead" \notin DOMAIN r THEN r
    ELSE LET n == __memory_alloc(r.A, r.heap, r.next, word, okFrom)
         IN  spill_on_junk([ n EXCEPT !.orphans = n.orphans + r.orphans ], word, okFrom)

\* the end of an alloc call whose result is r; emptyReads are the empty slots
\* whose bank the call read
AllocEnds(size, r, emptyReads, returned) ==
    /\ Holdable(Cardinality(outstanding) + 1)
    /\ orphans + r.orphans <= MaxOrphans
    /\ _allocators' = r.A
    /\ heap' = r.heap
    /\ outstanding' = outstanding \cup ({r.ret} \ {nullptr})
    /\ last' = [ op |-> "alloc", ptr |-> nullptr, size |-> size, ret |-> r.ret,
                 copied |-> 0, emptyReads |-> emptyReads, returned |-> returned,
                 answer |-> 0 ]
    /\ rawheap' = Acquired(r.ret)
    /\ orphans' = orphans + r.orphans
    /\ UNCHANGED <<config, m_srefCount>>
    /\ UNCHANGED listVars

\* what the read through the null pointer does to the call: it traps, or it
\* gives a small block size (the call returns null) or a large one (the
\* spill-up goes on)
JunkReads == {"trap", "small", "large"}

\* the alloc call with result r in a build whose raw heap may refuse
AllocFrom(size, r, junk, okFrom) ==
    IF "emptyRead" \notin DOMAIN r THEN AllocEnds(size, r, {}, TRUE)
    ELSE IF junk = "large"
    THEN AllocEnds(size, spill_on_junk(r, required_extra_buffer, okFrom),
                   {r.emptyRead}, TRUE)
    ELSE AllocEnds(size, r, {r.emptyRead}, junk = "small")

\* alloc when the raw heap may refuse any bank, of an on-demand build too
AllocScarce(size) ==
    \E okFrom \in 1..(MAX_ALLOCATORS + 1), junk \in JunkReads :
        AllocFrom(size,
                  __memory_alloc(_allocators, heap, size, required_extra_buffer, okFrom),
                  junk, okFrom)

\* a Stats query with the block size it asks about.  The call returns its
\* answer, or it traps at the first empty slot it reads; last.emptyReads are
\* the empty slots whose bank the query called.
Stats(q, blockSize) ==
    \E o \in JunkOutcomes :
        LET A == Seen(_allocators, o.junk)
            empty == { i \in SlotsRead(q, A, blockSize) : _allocators[i] = EmptySlot }
            first == { i \in empty : \A j \in empty : i <= j }
        IN  /\ last' = IF o.traps /\ empty # {}
                       THEN [ op |-> q, ptr |-> nullptr, size |-> u32(blockSize),
                              ret |-> nullptr, copied |-> 0,
                              emptyReads |-> first, returned |-> FALSE,
                              answer |-> 0 ]
                       ELSE [ op |-> q, ptr |-> nullptr, size |-> u32(blockSize),
                              ret |-> nullptr, copied |-> 0,
                              emptyReads |-> empty, returned |-> TRUE,
                              answer |-> StatsAnswer(q, A, blockSize) ]
            /\ UNCHANGED <<config, _allocators, heap, outstanding,
                           m_srefCount, rawheap, orphans>>
            /\ UNCHANGED listVars

\* the program runs until a call traps
Running == "returned" \in DOMAIN last => last.returned

Next ==
    \/ \E size \in Sizes : Alloc(size)
    \/ \E ptr \in outstanding \cup {nullptr} : Free(ptr)
    \/ \E oldMem \in outstanding \cup {nullptr}, size \in ReallocSizes : Realloc(oldMem, size)

\* a client that only calls alloc and free
NextAllocFree ==
    \/ \E size \in Sizes : Alloc(size)
    \/ \E ptr \in outstanding \cup {nullptr} : Free(ptr)

\* MemoryInitDestroy objects come and go while a client calls alloc and free
NextLifecycle ==
    \/ Construct
    \/ Destruct
    \/ \E size \in LifecycleSizes : Alloc(size)
    \/ \E ptr \in outstanding \cup {nullptr} : Free(ptr)

\* request sizes of the clients that also ask for the Stats: one byte, and
\* in a pool build one byte more than the smallest bucket holds (the second
\* bank of an on-demand build is made by the spill-up)
StatsSizes ==
    IF config.pool = NoPool THEN { u32(1) } ELSE
    { u32(1),
      u32(insert_blockSize(required_extra_buffer, 0) - required_extra_buffer + 1) }

\* the block sizes that the Stats queries ask about: the two smallest buckets
StatsBlockSizes ==
    { insert_blockSize(required_extra_buffer, 0),
      insert_blockSize(required_extra_buffer, 1) }

\* MemoryInitDestroy objects come and go while a client calls alloc and asks
\* for the Stats
NextStats ==
    \/ Running /\ Construct
    \/ Running /\ Destruct
    \/ Running /\ \E size \in StatsSizes : AllocScarce(size)
    \/ Running /\ \E q \in StatsQueries, blockSize \in StatsBlockSizes :
                      Stats(q, blockSize)

\* small pools, every call
Spec == Init /\ [][Next]_vars

\* the full bucket layout, alloc and free
SpecLayout == InitLayout /\ [][NextAllocFree]_vars

\* on-demand banks, every call
SpecDemand == InitDemand /\ [][Next]_vars

\* small pools from before the first construction to after the last
\* destruction
SpecLifecycle == InitLifecycle /\ [][NextLifecycle]_vars

(***************************************************************************)
(* ArrayList (lib/wlib/stl/ArrayList.h): one list of elements of Vals.     *)
(*                                                                         *)
(* m_data is the block that memory_alloc gave for the array, cell k of the *)
(* array at position k + 1.  The block of an array of n elements has room  *)
(* for n elements and, as the allocator rounds the block size up, for some *)
(* more behind them (the slack).  An access within the block reads or      *)
(* writes that cell; an access outside the block, and a division by zero,  *)
(* has no defined outcome: the call is followed no further and the list is *)
(* left as it was (call.returned is FALSE).  Allocations always succeed.   *)
(*                                                                         *)
(* A run is the list during a call: m_data, m_size, m_capacity, ok (no     *)
(* access has left the block), iterations (of the loop of shift_right or   *)
(* shift_left) and beyond (the indices written at or after m_capacity).    *)
(***************************************************************************)
\* the values of the elements
Vals == {"a", "b"}

\* a cell that was never written
Unset == "unset"

\* the indices that the client passes: the first ones and the largest
Indices == {0, 1, 2, U16 - 1}

\* the capacities that the client constructs a list with
InitialCapacities == {0, 1, 2}

\* memory_alloc(n * sizeof(val_type)) in a block with room for slack more
NewArray(n, slack) == [ k \in 1..(n + slack) |-> Unset ]

\* the list as a call finds it
Start ==
    [ m_data |-> m_data, m_size |-> m_size, m_capacity |-> m_capacity,
      ok |-> TRUE, iterations |-> 0, beyond |-> {} ]

\* m_data[dst] = v
Store(R, dst, v) ==
    IF ~R.ok THEN R
    ELSE IF dst < Len(R.m_data)
    THEN [ R EXCEPT !.m_data[dst + 1] = v,
                    !.beyond = IF dst >= R.m_capacity THEN @ \cup {dst} ELSE @ ]
    ELSE [ R EXCEPT !.ok = FALSE, !.beyond = @ \cup {dst} ]

\* m_data[dst] = m_data[src]
Move(R, dst, src) ==
    IF ~R.ok THEN R
    ELSE IF src >= Len(R.m_data) THEN [ R EXCEPT !.ok = FALSE ]
    ELSE Store(R, dst, R.m_data[src + 1])

\* for (i = 0; i < m_size; i++) new_data[i] = m_data[i], N being the run
\* with the new array and old the former array
RECURSIVE copy_elements(_, _, _)
copy_elements(N, old, i) ==
    IF ~N.ok \/ ~(i < N.m_size) THEN N
    ELSE IF i >= Len(old) THEN [ N EXCEPT !.ok = FALSE ]
    ELSE copy_elements(Store(N, i, old[i + 1]), old, (i + 1) % U16)

\* the tail shared by ensure_capacity, reserve and shrink: allocate the new
\* array, copy the elements, free the old array, take the new capacity
reallocate(R, new_capacity, slack) ==
    copy_elements([ R EXCEPT !.m_data = NewArray(new_capacity, slack),
                             !.m_capacity = new_capacity ],
                  R.m_data, 0)

\* normalize(i): i %= m_size; i is unsigned, so that i < 0 never holds
normalize(i, size) == i % size

ensure_capacity(R, slack) ==
    IF R.m_size < R.m_capacity THEN R
    ELSE reallocate(R, (2 * R.m_capacity) % U16, slack)

reserve(R, new_capacity, slack) ==
    IF new_capacity <= R.m_capacity THEN R
    ELSE reallocate(R, new_capacity, slack)

shrink(R, slack) == reallocate(R, R.m_size, slack)

\* for (j = m_size - 1; j >= i; j--) m_data[j + 1] = m_data[j], with the
\* 16 bit unsigned counter j
RECURSIVE shift_right_from(_, _, _)
shift_right_from(R, i, j) ==
    IF ~R.ok \/ ~(j >= i) THEN R
    ELSE shift_right_from(Move([ R EXCEPT !.iterations = @ + 1 ], j + 1, j),
                          i, (j - 1) % U16)

shift_right(R, i) == shift_right_from(R, i, (R.m_size - 1) % U16)

\* for (j = i; j < m_size - 1; j++) m_data[j] = m_data[j + 1]; m_size - 1 is
\* an int and is -1 for an empty list
RECURSIVE shift_left_from(_, _)
shift_left_from(R, j) ==
    IF ~R.ok \/ ~(j < R.m_size - 1) THEN R
    ELSE shift_left_from(Move([ R EXCEPT !.iterations = @ + 1 ], j, j + 1),
                         (j + 1) % U16)

shift_left(R, i) == shift_left_from(R, i)

\* i %= m_size when m_size is 0: the division traps, or it leaves some
\* value in i
DivisionByZero ==
    { [ trap |-> TRUE, i |-> 0 ] } \cup { [ trap |-> FALSE, i |-> k ] : k \in Indices }

\* insert(size_type i, t); zero is the outcome of the division by zero
insert(R, i, t, slack, zero) ==
    LET E == ensure_capacity(R, slack) IN
    IF E.m_size = 0 /\ zero.trap THEN [ E EXCEPT !.ok = FALSE ]
    ELSE LET n == IF E.m_size = 0 THEN zero.i ELSE normalize(i, E.m_size)
             S == Store(shift_right(E, n), n, t)
         IN  [ S EXCEPT !.m_size = (@ + 1) % U16 ]

\* insert(iterator &it, t) and insert(const_iterator &it, t), it.m_i = i
insert_it(R, i, t, slack) ==
    LET E == ensure_capacity(R, slack)
        S == Store(shift_right(E, i), i, t)
    IN  [ S EXCEPT !.m_size = (@ + 1) % U16 ]

\* erase(size_type i)
erase(R, i) ==
    IF R.m_size = 0 THEN R
    ELSE shift_left(R, normalize(i, R.m_size))

\* erase(iterator &it) and erase(const_iterator &it), it.m_i = i
erase_it(R, i) ==
    IF R.m_size = 0 THEN R
    ELSE shift_left(R, i)

push_back(R, t, slack) ==
    LET E == ensure_capacity(R, slack)
        S == Store(E, E.m_size, t)
    IN  [ S EXCEPT !.m_size = (@ + 1) % U16 ]

pop_back(R) ==
    IF R.m_size > 0 THEN [ R EXCEPT !.m_size = @ - 1 ] ELSE R

clear(R) == [ R EXCEPT !.m_size = 0 ]

\* the call ends with the run R: the list is as R left it when the call
\* returned, and as the call found it otherwise
Return(op, i, t, R) ==
    /\ call.returned
    /\ R.m_capacity <= MaxCapacity
    /\ IF R.ok
       THEN /\ m_data' = R.m_data
            /\ m_size' = R.m_size
            /\ m_capacity' = R.m_capacity
       ELSE UNCHANGED <<m_data, m_size, m_capacity>>
    /\ call' = [ op |-> op, i |-> i, t |-> t, returned |-> R.ok,
                 iterations |-> R.iterations, beyond |-> R.beyond ]
    /\ UNCHANGED memVars

PushBack(t) ==
    \E slack \in 0..MaxSlack : Return("push_back", 0, t, push_back(Start, t, slack))

Insert(i, t) ==
    \E slack \in 0..MaxSlack, zero \in DivisionByZero :
        Return("insert", i, t, insert(Start, i, t, slack, zero))

InsertIt(i, t) ==
    \E slack \in 0..MaxSlack : Return("insert_it", i, t, insert_it(Start, i, t, slack))

Erase(i) == Return("erase", i, "none", erase(Start, i))

EraseIt(i) == Return("erase_it", i, "none", erase_it(Start, i))

PopBack == Return("pop_back", 0, "none", pop_back(Start))

Clear == Return("clear", 0, "none", clear(Start))

Reserve(new_capacity) ==
    \E slack \in 0..MaxSlack :
        Return("reserve", new_capacity, "none", reserve(Start, new_capacity, slack))

Shrink ==
    \E slack \in 0..MaxSlack : Return("shrink", 0, "none", shrink(Start, slack))

\* the public operations of the list; an iterator of the list stands at one
\* of the positions 0..m_size
NextArrayList ==
    \/ \E t \in Vals : PushBack(t)
    \/ \E i \in Indices, t \in Vals : Insert(i, t)
    \/ \E i \in 0..m_size, t \in Vals : InsertIt(i, t)
    \/ \E i \in Indices : Erase(i)
    \/ \E i \in 0..m_size : EraseIt(i)
    \/ PopBack
    \/ Clear
    \/ \E new_capacity \in 0..MaxCapacity : Reserve(new_capacity)
    \/ Shrink

\* ArrayList(initial_capacity): m_size = 0 and an array of initial_capacity
\* elements, in a program that has called nothing else
InitArrayList ==
    /\ \E c \in DemandConfigurations :
          /\ config = c
          /\ _allocators = NoBanks(c)
    /\ heap = [ a \in {} |-> nullptr ]
    /\ outstanding = {}
    /\ last = NoCall
    /\ m_srefCount = 0
    /\ rawheap = {}
    /\ orphans = 0
    /\ \E initial_capacity \in InitialCapacities, slack \in 0..MaxSlack :
          /\ m_data = NewArray(initial_capacity, slack)
          /\ m_capacity = initial_capacity
    /\ m_size = 0
    /\ call = NoListCall

\* one ArrayList, every public operation
SpecArrayList == InitArrayList /\ [][NextArrayList]_vars

\* the builds of the Stats: the small pools and the on-demand build
StatsConfigurations == SmallConfigurations \cup DemandConfigurations

InitStats == \E c \in StatsConfigurations : InitStatic(c)

\* every build from before the first construction to after the last
\* destruction, with the Stats queries
SpecStats == InitStats /\ [][NextStats]_vars

TypeOK ==
    /\ config \in Configurations
    /\ Len(_allocators) = MAX_ALLOCATORS
    /\ \A p \in outstanding : p - required_extra_buffer \in DOMAIN heap

(***************************************************************************)
(* Vocabulary of the properties.                                           *)
(***************************************************************************)
\* the slot of the bank whose storage holds the block of client pointer p
OwnerSlot(p) == (p - required_extra_buffer) \div StorageSpan

OwnerBank(p) == _allocators[OwnerSlot(p)]

Slots == 1..Len(_allocators)

\* n + sizeof(word) <= blockSize, in unbounded arithmetic (block sizes are
\* below 2^16 in every configuration)
Fits(blockSize, n) == n.hi = 0 /\ n.lo + required_extra_buffer <= blockSize

\* the slot of the smallest bank whose block holds n bytes and the prefix,
\* 0 when there is none
MinimalSlot(n) ==
    LET fit == { i \in Slots : Fits(GetBlockSize(_allocators[i]), n) }
    IN  IF fit = {} THEN 0
        ELSE CHOOSE i \in fit :
                \A j \in fit : GetBlockSize(_allocators[i]) <= GetBlockSize(_allocators[j])

HasFreeBlock(bank) == bank.in_use < bank.capacity

\* the first slot at or after slot i whose bank has a free block, 0 when
\* there is none
FirstFree(i) ==
    LET free == { j \in Slots : j >= i /\ HasFreeBlock(_allocators[j]) }
    IN  IF free = {} THEN 0 ELSE CHOOSE j \in free : \A k \in free : j <= k

OutstandingOf(i) == { p \in outstanding : OwnerSlot(p) = i }

RECURSIVE OutstandingBytes(_)
OutstandingBytes(i) ==
    IF i = 0 THEN 0
    ELSE OutstandingBytes(i - 1)
         + Cardinality(OutstandingOf(i)) * GetBlockSize(_allocators[i])

IsStatic == config.pool = "STATIC_POOL"

AllocReturned == last.op = "alloc" /\ last.ret # nullptr

(***************************************************************************)
(* C1  Accounting: in pool mode, after any sequence of alloc, free and     *)
(* realloc calls, getTotalMemoryUsed() is the sum over the outstanding     *)
(* allocations of the block size of the bank that served each of them,     *)
(* and every bank's in_use is the number of outstanding allocations it     *)
(* served.                                                                 *)
(***************************************************************************)
C1_Accounting ==
    /\ getTotalMemoryUsed = OutstandingBytes(Len(_allocators))
    /\ \A i \in Slots :
          GetNumAllocations(_allocators[i]) = Cardinality(OutstandingOf(i))

\* an allocation served by spill-up is outstanding, after a realloc that
\* moved a block
C1_Witness ==
    /\ last.op = "realloc" /\ last.ptr # nullptr /\ last.ret # nullptr
    /\ MinimalSlot(last.size) # 0
    /\ OwnerSlot(last.ret) > MinimalSlot(last.size)
    /\ Cardinality(outstanding) >= 2

(***************************************************************************)
(* C2  Bucket minimality: every alloc(n) that succeeds is served by a bank *)
(* with block_size >= n + sizeof(word), and by the smallest such bank      *)
(* unless every bank between that one and the serving bank had no block to *)
(* give (spill-up).                                                        *)
(***************************************************************************)
C2_BucketMinimality ==
    AllocReturned =>
        /\ MinimalSlot(last.size) # 0
        /\ OwnerSlot(last.ret) >= MinimalSlot(last.size)
        /\ \A j \in Slots :
              (MinimalSlot(last.size) <= j /\ j < OwnerSlot(last.ret))
                  => _allocators[j].free_list = << >>

(***************************************************************************)
(* C3  Sufficient room: for every n > 0 for which alloc(n) returns a       *)
(* non-null pointer, the client region of the block holds at least n       *)
(* bytes: block_size - sizeof(word) >= n.                                  *)
(***************************************************************************)
C3_SufficientRoom ==
    (AllocReturned /\ last.size # u32(0)) =>
        ge32(u32(GetBlockSize(OwnerBank(last.ret)) - required_extra_buffer), last.size)

(***************************************************************************)
(* C4  Provenance: the prefix word of every outstanding client pointer     *)
(* names the bank that holds its block, and free(p) returns the block to   *)
(* exactly that bank: its in_use decreases by one, the block becomes the   *)
(* head of its free-list, and every other bank is unchanged.               *)
(***************************************************************************)
PrefixNamesOwner(p) == heap[p - required_extra_buffer] = OwnerSlot(p)

C4_Provenance ==
    [][ /\ \A p \in outstanding : PrefixNamesOwner(p)
        /\ (last'.op = "free" /\ last'.ptr # nullptr) =>
              LET o == OwnerSlot(last'.ptr) IN
              /\ _allocators'[o].in_use = _allocators[o].in_use - 1
              /\ _allocators'[o].free_list =
                    << last'.ptr - required_extra_buffer >> \o _allocators[o].free_list
              /\ \A i \in Slots \ {o} : _allocators'[i] = _allocators[i]
      ]_vars

\* a block of a bank other than the smallest was freed while other
\* allocations are outstanding
C4_Witness ==
    /\ last.op = "free" /\ last.ptr # nullptr
    /\ OwnerSlot(last.ptr) > 1
    /\ OutstandingOf(1) # {}
    /\ Head(OwnerBank(last.ptr).free_list) = last.ptr - required_extra_buffer

(***************************************************************************)
(* C5  Exhaustion: in a Static pool, for every n with n + sizeof(word) no  *)
(* larger than the largest block, alloc(n) returns null exactly when no    *)
(* bank with block_size >= n + sizeof(word) has a free block; when every   *)
(* bank is full, alloc of any size returns null.                           *)
(***************************************************************************)
C5_Exhaustion ==
    [][ (last'.op = "alloc" /\ IsStatic) =>
          /\ MinimalSlot(last'.size) # 0 =>
                ( last'.ret = nullptr <=> FirstFree(MinimalSlot(last'.size)) = 0 )
          /\ FirstFree(1) = 0 => last'.ret = nullptr
      ]_vars

\* every bank of a Static pool is full and an alloc that fits a bank failed
C5_Witness ==
    /\ last.op = "alloc" /\ last.ret = nullptr /\ IsStatic
    /\ MinimalSlot(last.size) # 0
    /\ \A i \in Slots : ~HasFreeBlock(_allocators[i])

(***************************************************************************)
(* C6  Spill-up goes to the next bank in Registry order: the retry with    *)
(* block_size + 1 selects the immediately following bank, for every        *)
(* adjacent pair of the layout; a request is served by the first bank at   *)
(* or after its bucket that has a free block, and getTotalMemoryUsed()     *)
(* grows by that bank's block size.                                        *)
(***************************************************************************)
C6_SpillUpNextBank ==
    /\ [](\A i \in Slots \ {Len(_allocators)} :
            memory_get_allocator(_allocators, u32(GetBlockSize(_allocators[i]) + 1),
                                 required_extra_buffer).allocator = i + 1)
    /\ [][ (last'.op = "alloc" /\ MinimalSlot(last'.size) # 0) =>
             LET j == FirstFree(MinimalSlot(last'.size)) IN
             IF j = 0
             THEN last'.ret = nullptr
             ELSE /\ last'.ret # nullptr
                  /\ OwnerSlot(last'.ret) = j
                  /\ getTotalMemoryUsed' = getTotalMemoryUsed + GetBlockSize(_allocators[j])
         ]_vars

\* a request for the 256 byte bucket was served by the 300 byte bank
C6_Witness ==
    /\ AllocReturned
    /\ MinimalSlot(last.size) # 0
    /\ GetBlockSize(_allocators[MinimalSlot(last.size)]) = 256
    /\ GetBlockSize(OwnerBank(last.ret)) = 300

(***************************************************************************)
(* C7  Requests exceeding the largest bucket return null: for every 32 bit *)
(* n with n + sizeof(word) greater than the largest block size, alloc(n)   *)
(* returns null.                                                           *)
(***************************************************************************)
C7_TooLargeReturnsNull ==
    (last.op = "alloc" /\ MinimalSlot(last.size) = 0) => last.ret = nullptr

(***************************************************************************)
(* C8  Failure atomicity: when alloc(n), or realloc(old, n) with n > 0,    *)
(* returns null, the banks, the block prefixes and the outstanding         *)
(* allocations are what they were before the call; old is still            *)
(* outstanding and its prefix still names its bank.                        *)
(***************************************************************************)
FailedCall(l) ==
    /\ l.ret = nullptr
    /\ \/ l.op = "alloc"
       \/ l.op = "realloc" /\ l.size # u32(0)

C9_NullFreeNoOp ==
    [][ (last'.op = "free" /\ last'.ptr = nullptr) =>
          /\ _allocators' = _allocators
          /\ heap' = heap
          /\ outstanding' = outstanding
          /\ getTotalMemoryUsed' = getTotalMemoryUsed
          /\ getTotalMemoryAvailable' = getTotalMemoryAvailable
          /\ \A i \in Slots :
                LET bs == GetBlockSize(_allocators[i]) IN
                /\ isSizeAvailable(bs)' = isSizeAvailable(bs)
                /\ isSizeMemAvailable(bs)' = isSizeMemAvailable(bs)
                /\ getNumBlocksAvailable(bs)' = getNumBlocksAvailable(bs)
      ]_vars

\* free(null) was called while allocations are outstanding
C9_Witness ==
    /\ last.op = "free" /\ last.ptr = nullptr
    /\ outstanding # {}
    /\ getTotalMemoryUsed > 0

(***************************************************************************)
(* C10  Zero-size alloc, as claimed: alloc(0) always returns a non-null    *)
(* pointer to a block of the smallest bank.                                *)
(***************************************************************************)
C10_ZeroAllocSmallestBank ==
    (last.op = "alloc" /\ last.size = u32(0)) =>
        /\ last.ret # nullptr
        /\ OwnerSlot(last.ret) = 1

(***************************************************************************)
(* C10  Zero-size alloc, amended: alloc(0) returns a block of the smallest *)
(* bank whenever that bank has a block on its free-list; a pointer it      *)
(* returns lies in the first bank, in Registry order, that could give a    *)
(* block, is outstanding, and free() of it restores every in_use; in a     *)
(* Static pool it returns null exactly when every bank is full.            *)
(***************************************************************************)
C10_ZeroAllocAmended ==
    [][ (last'.op = "alloc" /\ last'.size = u32(0)) =>
          /\ _allocators[1].free_list # << >> =>
                (last'.ret # nullptr /\ OwnerSlot(last'.ret) = 1)
          /\ IsStatic => (last'.ret = nullptr <=> FirstFree(1) = 0)
          /\ last'.ret # nullptr =>
                /\ \A j \in 1..(OwnerSlot(last'.ret) - 1) : _allocators[j].free_list = << >>
                /\ IsStatic => OwnerSlot(last'.ret) = FirstFree(1)
                /\ last'.ret \in outstanding'
                /\ LET f == __memory_free(_allocators', heap', last'.ret,
                                          required_extra_buffer)
                   IN  \A i \in Slots : f.A[i].in_use = _allocators[i].in_use
      ]_vars

\* alloc(0) was served by a larger bank because the smallest one was full
C10_Witness ==
    /\ AllocReturned /\ last.size = u32(0)
    /\ OwnerSlot(last.ret) > 1
    /\ ~HasFreeBlock(_allocators[1])

(***************************************************************************)
(* C11  Realloc preserves bytes: when realloc(old, n) with old # null and  *)
(* n > 0 returns a non-null pointer, memcpy has moved min(old_usable, n)   *)
(* bytes from old to the new block, where old_usable is the block size of  *)
(* old's bank less the prefix word (the 16 bit oldSize does not shorten    *)
(* the copy); afterwards old's block heads the free-list of its bank and   *)
(* of the two pointers only the new one is outstanding.                    *)
(***************************************************************************)
C11_ReallocPreservesBytes ==
    ( /\ last.op = "realloc" /\ last.ptr # nullptr
      /\ last.size # u32(0) /\ last.ret # nullptr ) =>
        LET old_usable == GetBlockSize(OwnerBank(last.ptr)) - required_extra_buffer
        IN  /\ last.copied = IF gt32(last.size, u32(old_usable))
                              THEN old_usable
                              ELSE last.size.hi * U16 + last.size.lo
            /\ OwnerBank(last.ptr).free_list # << >>
            /\ Head(OwnerBank(last.ptr).free_list) = last.ptr - required_extra_buffer
            /\ last.ret # last.ptr
            /\ last.ret \in outstanding
            /\ last.ptr \notin outstanding

(***************************************************************************)
(* C12  realloc(p, 0) frees and realloc(null, n) allocates: for an         *)
(* outstanding p, realloc(p, 0) returns null and does what free(p) does:   *)
(* p is no longer outstanding, the in_use of p's bank goes down by one,    *)
(* getTotalMemoryUsed() goes down by that bank's block size (the amount    *)
(* the allocation of p had added) and no other bank changes; realloc(null, *)
(* n) returns what alloc(n) returns and leaves the state alloc(n) leaves,  *)
(* for every n, 0 included.                                                *)
(***************************************************************************)
C12_ReallocZeroAndNull ==
    [][ last'.op = "realloc" =>
          /\ (last'.ptr # nullptr /\ last'.size = u32(0)) =>
                LET i == OwnerSlot(last'.ptr)
                    f == __memory_free(_allocators, heap, last'.ptr, required_extra_buffer)
                IN  /\ last'.ret = nullptr
                    /\ outstanding' = outstanding \ {last'.ptr}
                    /\ GetNumAllocations(_allocators'[i])
                          = GetNumAllocations(_allocators[i]) - 1
                    /\ getTotalMemoryUsed'
                          = getTotalMemoryUsed - GetBlockSize(_allocators[i])
                    /\ \A j \in Slots \ {i} : _allocators'[j] = _allocators[j]
                    /\ _allocators' = f.A /\ heap' = f.heap
          /\ last'.ptr = nullptr =>
                \E okFrom \in Oracles :
                    LET a == __memory_alloc(_allocators, heap, last'.size,
                                            required_extra_buffer, okFrom)
                    IN  /\ last'.ret = a.ret
                        /\ _allocators' = a.A /\ heap' = a.heap
                        /\ outstanding' = outstanding \cup ({a.ret} \ {nullptr})
      ]_vars

\* realloc(p, 0) has just freed one of two outstanding blocks
C12_Witness ==
    /\ last.op = "realloc" /\ last.ptr # nullptr /\ last.size = u32(0)
    /\ last.ret = nullptr
    /\ last.ptr \notin outstanding
    /\ outstanding # {}

(***************************************************************************)
(* C13  Reference-counted bootstrap: while destructions do not outnumber   *)
(* constructions, a construction creates the banks when the counter goes   *)
(* from 0 to 1 and otherwise leaves banks, block words and outstanding     *)
(* allocations as they are; a destruction empties the Registry when the    *)
(* counter goes from 1 to 0 and otherwise leaves banks and outstanding     *)
(* allocations as they are; in a pool build the banks exist exactly while  *)
(* the counter is above 0.                                                 *)
(***************************************************************************)
C13_RefCountedBootstrap ==
    /\ [](/\ m_srefCount > 0 => \A i \in Slots : _allocators[i] # EmptySlot
          /\ m_srefCount = 0 => \A i \in Slots : _allocators[i] = EmptySlot)
    /\ [][ /\ last'.op = "construct" =>
               /\ m_srefCount' = m_srefCount + 1
               /\ IF m_srefCount = 0
                  THEN \A i \in Slots :
                          /\ _allocators'[i] # EmptySlot
                          /\ GetNumAllocations(_allocators'[i]) = 0
                          /\ GetBlockSize(_allocators'[i])
                                = insert_blockSize(required_extra_buffer, i - 1)
                  ELSE /\ _allocators' = _allocators
                       /\ heap' = heap
                       /\ outstanding' = outstanding
           /\ last'.op = "destruct" =>
               /\ m_srefCount' = m_srefCount - 1
               /\ IF m_srefCount = 1
                  THEN \A i \in Slots : _allocators'[i] = EmptySlot
                  ELSE /\ _allocators' = _allocators
                       /\ heap' = heap
                       /\ outstanding' = outstanding
           /\ last'.op \notin {"construct", "destruct"} =>
               m_srefCount' = m_srefCount
          ]_vars

\* a destruction that was not the last one, with an allocation outstanding
C13_Witness ==
    /\ last.op = "destruct"
    /\ m_srefCount = 1
    /\ outstanding # {}
    /\ \E i \in Slots : GetNumAllocations(_allocators[i]) > 0

(***************************************************************************)
(* C14  No leaks on destroy: in a Dynamic pool, once the last              *)
(* MemoryInitDestroy object is destroyed after any calls of alloc and      *)
(* free, no block taken from the raw heap remains unreleased, the blocks   *)
(* that clients still held included, and every Registry slot is empty.     *)
(***************************************************************************)
C14_NoLeaksOnDestroy ==
    ( config.pool = "DYNAMIC_POOL" /\ last.op = "destruct" /\ m_srefCount = 0 ) =>
        /\ rawheap = {}
        /\ \A i \in Slots : _allocators[i] = EmptySlot

(***************************************************************************)
(* C15  Bank monotonicity: in every state of every build (Static pool,     *)
(* Dynamic pool, on-demand) the block sizes of the banks in the Registry,  *)
(* read in slot order, are strictly ascending, hence pairwise distinct.    *)
(***************************************************************************)
C15_BankMonotonicity ==
    \A i, j \in Slots :
        ( i < j /\ _allocators[i] # EmptySlot /\ _allocators[j] # EmptySlot ) =>
            GetBlockSize(_allocators[i]) < GetBlockSize(_allocators[j])

(***************************************************************************)
(* C16  Minimum block size: every bank in the Registry, put there by the   *)
(* bootstrap of a pool build or by an alloc(n) of an on-demand build       *)
(* (n = 0 included), has a block size of at least the prefix word plus     *)
(* one client byte.                                                        *)
(***************************************************************************)
C16_MinimumBlockSize ==
    \A i \in Slots :
        _allocators[i] # EmptySlot =>
            GetBlockSize(_allocators[i]) >= required_extra_buffer + 1

(***************************************************************************)
(* C17  Registry full: in an on-demand build, when every slot holds a bank *)
(* and alloc(n) needs a bank of a size that is in no slot, alloc returns   *)
(* null, the Registry is as it was, and the bank constructed for the       *)
(* request is destroyed: no bank is left alive outside the Registry.       *)
(***************************************************************************)
C17_RegistryFull ==
    [][ ( /\ config.pool = NoPool
          /\ last'.op = "alloc"
          /\ \A i \in Slots : _allocators[i] # EmptySlot
          /\ find_allocator(_allocators,
                            demand_blockSize(last'.size, required_extra_buffer)) = 0 ) =>
            /\ last'.ret = nullptr
            /\ _allocators' = _allocators
            /\ orphans' = 0
      ]_vars

\* the raw blocks that belong to the bank in slot i: all of a Static bank's
\* storage, and what a bank without storage has taken from the raw heap
BlocksOf(i) ==
    IF _allocators[i] = EmptySlot THEN {}
    ELSE { BlockAddr(i, GetBlockSize(_allocators[i]), k) :
             k \in 1..(_allocators[i].acquired) }

FreeBlocks(i) ==
    { _allocators[i].free_list[k] : k \in 1..Len(_allocators[i].free_list) }

(***************************************************************************)
(* C18  No aliasing: after any calls of alloc, free and realloc (frees of  *)
(* outstanding pointers only) no block is on a free-list and handed out,   *)
(* no block is twice on a free-list or on the free-lists of two banks,     *)
(* and every outstanding pointer lies exactly one word past the start of   *)
(* a block of exactly one bank, so that two outstanding pointers have two  *)
(* blocks.                                                                 *)
(***************************************************************************)
C18_NoAliasing ==
    /\ \A i \in Slots :
          /\ FreeBlocks(i) \subseteq BlocksOf(i)
          /\ Cardinality(FreeBlocks(i)) = Len(_allocators[i].free_list)
          /\ \A b \in FreeBlocks(i) : b + required_extra_buffer \notin outstanding
          /\ \A j \in Slots \ {i} : BlocksOf(i) \cap BlocksOf(j) = {}
    /\ \A p \in outstanding :
          Cardinality({ i \in Slots : p - required_extra_buffer \in BlocksOf(i) }) = 1
    /\ \A p, q \in outstanding :
          p # q => p - required_extra_buffer # q - required_extra_buffer

\* two blocks of one bank are handed out after a block went through the
\* free-list, and another bank has a block on its free-list
C18_Witness ==
    /\ \E p, q \in outstanding : p # q /\ OwnerSlot(p) = OwnerSlot(q)
    /\ \E i \in Slots : FreeBlocks(i) # {} /\ OutstandingOf(i) = {}
    /\ last.op = "alloc" /\ last.ret # nullptr
    /\ \E i \in Slots : _allocators[i].in_use < Cardinality(BlocksOf(i))

\* the bounds on in_use and on the free-list of the bank in slot i
BankCounts(i) ==
    LET bank == _allocators[i] IN
    /\ 0 <= bank.in_use /\ bank.in_use <= bank.capacity
    /\ IF bank.pool = "STATIC_POOL"
       THEN bank.in_use + Len(bank.free_list) = bank.capacity
       ELSE bank.in_use + Len(bank.free_list) <= bank.capacity

\* a successful alloc adds one to the in_use of the bank of the block it
\* returns, a free of a block takes one off the in_use of its bank, and the
\* other banks keep theirs
BankSteps ==
    /\ (last'.op = "alloc" /\ last'.ret # nullptr) =>
          \A i \in Slots :
              GetNumAllocations(_allocators'[i])
                = GetNumAllocations(_allocators[i])
                  + IF i = OwnerSlot(last'.ret) THEN 1 ELSE 0
    /\ (last'.op = "free" /\ last'.ptr # nullptr) =>
          \A i \in Slots :
              GetNumAllocations(_allocators'[i])
                = GetNumAllocations(_allocators[i])
                  - IF i = OwnerSlot(last'.ptr) THEN 1 ELSE 0

\* the answers the raw heap can give to a bank: a Static bank never asks
HeapAnswers == IF IsStatic THEN {TRUE} ELSE BOOLEAN

RECURSIVE CeilPow2(_, _)
CeilPow2(t, p) == IF p >= t THEN p ELSE CeilPow2(t, 2 * p)

\* the bucket of the specification for t bytes in total
Bucket(t) ==
    IF t > 256 /\ t <= 396 THEN 396
    ELSE IF t > 512 /\ t <= 768 THEN 768
    ELSE CeilPow2(t, 1)

\* a request below 2^31 bytes; the bucket of a larger one is above every
\* block size
Representable(n) == n.hi < U16 \div 2

(***************************************************************************)
(* C20  On-demand bucketing: in a build without pool the bank that serves  *)
(* alloc(n) has the block size f(n + sizeof(word)), f(t) being 396 for     *)
(* 256 < t <= 396, 768 for 512 < t <= 768 and otherwise the smallest power *)
(* of two >= t; a bank of that size is put in the Registry when there is   *)
(* none and a slot is empty; no two banks of the Registry have the same    *)
(* size.                                                                   *)
(***************************************************************************)
C20_DemandBucketing ==
    /\ [](\A i, j \in Slots :
            ( i # j /\ _allocators[i] # EmptySlot /\ _allocators[j] # EmptySlot ) =>
                GetBlockSize(_allocators[i]) # GetBlockSize(_allocators[j]))
    /\ [][ ( config.pool = NoPool /\ last'.op = "alloc" ) =>
             /\ last'.ret # nullptr =>
                   /\ Representable(last'.size)
                   /\ GetBlockSize(_allocators'[OwnerSlot(last'.ret)])
                         = Bucket(last'.size.hi * U16 + last'.size.lo
                                  + required_extra_buffer)
             /\ ( /\ Representable(last'.size)
                  /\ \E i \in Slots : _allocators[i] = EmptySlot ) =>
                   \E i \in Slots :
                       /\ _allocators'[i] # EmptySlot
                       /\ GetBlockSize(_allocators'[i])
                             = Bucket(last'.size.hi * U16 + last'.size.lo
                                      + required_extra_buffer)
          ]_vars

(***************************************************************************)
(* C21  Registry accesses are always to existing banks: in every reachable *)
(* state (an on-demand Registry with fewer than MAX_ALLOCATORS banks, a    *)
(* pool after the last destroy, the state before the first init) a Stats   *)
(* query and the spill-up test of alloc only call the banks of slots that  *)
(* hold one; no call goes through the null pointer of an empty slot.       *)
(***************************************************************************)
C21_RegistryAccesses ==
    last.op \in StatsQueries \cup {"alloc"} => last.emptyReads = {}

(***************************************************************************)
(* C22  ArrayList capacity invariant: after any sequence of push_back,     *)
(* insert, erase, pop_back, clear, reserve and shrink on a list of any     *)
(* initial capacity (0 included), with every allocation succeeding,        *)
(* size() <= capacity() holds and every element write m_data[i] of the     *)
(* last call had i < capacity(); in particular for push_back after         *)
(* shrink() on an empty list.                                              *)
(***************************************************************************)
C22_CapacityInvariant ==
    /\ m_size <= m_capacity
    /\ call.beyond = {}

(***************************************************************************)
(* C23  ArrayList erase removes one element: on a list of size s > 0,      *)
(* erase(i), and erase through an iterator that stands at an element,      *)
(* returns and leaves the size s - 1, the elements before the position     *)
(* (i mod s, or the iterator's) as they were and each element after it     *)
(* one position down; on an empty list erase returns and changes nothing.  *)
(***************************************************************************)
C23_EraseRemovesOne ==
    [][ call'.op \in {"erase", "erase_it"} =>
          IF m_size = 0
          THEN call'.returned /\ UNCHANGED <<m_data, m_size, m_capacity>>
          ELSE LET n == IF call'.op = "erase" THEN call'.i % m_size ELSE call'.i IN
               n < m_size =>
                  /\ call'.returned
                  /\ m_size' = m_size - 1
                  /\ \A k \in 0..(n - 1) : m_data'[k + 1] = m_data[k + 1]
                  /\ \A k \in (n + 1)..(m_size - 1) : m_data'[k] = m_data[k + 1]
      ]_vars

(***************************************************************************)
(* C24  ArrayList insert terminates and shifts correctly: on a list of     *)
(* size s >= 0, for every index i (0 and the empty list included),         *)
(* insert(i, t) returns, the size is s + 1 afterwards, the element at the  *)
(* normalized position (i mod s; 0 in the empty list) is t, the elements   *)
(* formerly at that position and after are each one position up, those     *)
(* before it are as they were, and the loop of shift_right ran at most s   *)
(* times.                                                                  *)
(***************************************************************************)
C24_InsertTerminatesAndShifts ==
    [][ call'.op = "insert" =>
          LET s == m_size
              n == IF s = 0 THEN 0 ELSE call'.i % s
          IN  /\ call'.returned
              /\ call'.iterations <= s
              /\ m_size' = s + 1
              /\ m_data'[n + 1] = call'.t
              /\ \A k \in n..(s - 1) : m_data'[k + 2] = m_data[k + 1]
              /\ \A k \in 0..(n - 1) : m_data'[k + 1] = m_data[k + 1]
      ]_vars

====
